---- MODULE Spec2Model ----
(***************************************************************************)
(* A model of the HMTL node core: ProgramManager (the per-output program   *)
(* tracker pool and its scheduler tick) and MessageHandler (the message    *)
(* dispatcher shared by the serial bridge and the bus sockets).            *)
(***************************************************************************)
EXTENDS Integers, Sequences, FiniteSets, TLC

(***************************************************************************)
(* Bounds of the model.                                                    *)
(***************************************************************************)
\* num_outputs handed to the ProgramManager constructor
NumOutputs == 3
\* number of heap addresses malloc can hand out for tracker state
MaxPtr == 2
\* the largest message length, in units of the smallest send buffer
MaxLen == 2
\* the largest node address on the bus
MaxAddr == 2
\* the largest number of readings in a sensor message
MaxSensors == 2

(***************************************************************************)
(* Constants of the program.                                               *)
(***************************************************************************)
NULL == 0

HMTL_PROGRAM_NONE == "NONE"
PROGRAM_TRACKER_DONE == "DONE"
HMTL_OUTPUT_PROGRAM == "PROGRAM"
HMTL_OUTPUT_VALUE == "VALUE"

\* The heap addresses, and the owner recorded for a block that is not live.
Ptr == 1..MaxPtr
FREE == -1

\* The indices of the configured outputs, and the cell that follows the
\* tables in memory (index num_outputs), which handle_msg can reach.
OutIdx == 0..(NumOutputs - 1)
Cells == 0..NumOutputs

(***************************************************************************)
(* The program registry handed to the constructor: the type identifier of  *)
(* each entry and what its setup does with tracker->state ("alloc": it     *)
(* mallocs the state; "leave": it does not touch the field).               *)
(***************************************************************************)
functions ==
  << [type |-> "NONE",         setup |-> "none"],
     [type |-> "SENSOR_DATA",  setup |-> "leave"],
     [type |-> "TIMED_CHANGE", setup |-> "alloc"],
     [type |-> "LEVEL_VALUE",  setup |-> "leave"] >>

num_programs == Len(functions)

\* The program type identifiers a message can carry ("FADE" is not registered).
ProgramIds == {"NONE", "TIMED_CHANGE", "LEVEL_VALUE", "FADE"}

\* The output descriptors the configuration hands to the constructor:
\* outputs[i] is TRUE iff the pointer is not NULL.  The last configured output
\* has no descriptor.
outputs == [i \in OutIdx |-> i # NumOutputs - 1]

VARIABLES
  address,       \* MessageHandler::address, the node's effective address
  sourceAddress, \* sourceAddress[k]: Socket::sourceAddress of socket k
  values,        \* values[i]: the value last written to output i by a message
  pc,            \* where the control loop is: serial, a socket, or the tick
  halted,        \* TRUE once a NULL dereference has stopped the node
  io,            \* what the last check_serial / check_socket call did
  clock,         \* time.ms(), last_serial_ms, last_ready_ms, and the time
                 \* that has really passed since the last serial message
                 \* and the last 'ready' line
  master,        \* the UtilMaster sketch: its globals, its statics, its
                 \* position in loop(), the messages of this pass
  trackers,    \* trackers[i]: the tracker record the slot points to, or NullTracker
  heap,        \* heap[p]: the cell whose tracker owns block p, or FREE
  last         \* the last ProgramManager operation: what it returned, the
               \* branch it took, the memory error it made ("none",
               \* "bad_free", "bad_read"), whether it indexed a table at an
               \* index >= num_outputs, whether its message named an output
               \* that is not configured, the outputs it stepped and reaped

NullTracker == [live |-> FALSE, program |-> NULL, flags |-> {}, state |-> NULL]

NoOp == [op |-> "none", ret |-> FALSE, path |-> "none", memErr |-> "none",
         oob |-> FALSE, invalid |-> FALSE, stepped |-> <<>>, reaped |-> <<>>]

(***************************************************************************)
(* ProgramManager::lookup_function: the first entry of the registry with   *)
(* the type, as its index, or NULL.                                        *)
(***************************************************************************)
RECURSIVE lookup_from(_, _)
lookup_from(i, id) ==
  IF i > num_programs THEN NULL
  ELSE IF functions[i].type = id THEN i
  ELSE lookup_from(i + 1, id)

lookup_function(id) == lookup_from(1, id)

(***************************************************************************)
(* free(p) called for the tracker of cell `owner`.  A ProgramManager state *)
(* is the record m = [trackers, heap, memErr]; memErr is the first memory  *)
(* error of the running operation: a free of a block that is not the live  *)
(* state of the tracker, or a read of one.                                 *)
(***************************************************************************)
FirstErr(err, kind) == IF err = "none" THEN kind ELSE err

free_state(m, p, owner) ==
  [m EXCEPT !.heap = [m.heap EXCEPT ![p] = FREE],
            !.memErr = IF m.heap[p] = owner THEN m.memErr
                       ELSE FirstErr(m.memErr, "bad_free")]

\* A free_tracker that frees the state and leaves the slot pointing at the
\* tracker.
free_tracker_keeps_slot(m, index) ==
  LET tracker == m.trackers[index]
  IN IF tracker.live /\ tracker.state # NULL
     THEN free_state(m, tracker.state, index)
     ELSE m

(***************************************************************************)
(* ProgramManager::free_tracker                                            *)
(***************************************************************************)
free_tracker(m, index) ==
  LET tracker == m.trackers[index]
      m1 == IF tracker.live /\ tracker.state # NULL
            THEN free_state(m, tracker.state, index)
            ELSE m
  IN [m1 EXCEPT !.trackers = [m1.trackers EXCEPT ![index] = NullTracker]]

(***************************************************************************)
(* The setup function of a program, by the kind the registry gives it.     *)
(* nd.addr is the block malloc returns.                                    *)
(***************************************************************************)
setup(m, index, nd) ==
  LET tracker == m.trackers[index]
  IN IF functions[tracker.program].setup = "alloc"
     THEN [m EXCEPT !.trackers = [m.trackers EXCEPT ![index].state = nd.addr],
                    !.heap = [m.heap EXCEPT ![nd.addr] = index]]
     ELSE m

(***************************************************************************)
(* ProgramManager::handle_msg on the program message msg = [output, type]. *)
(* nd holds what the code leaves open: nd.addr the block malloc returns to *)
(* setup, nd.garbage the content of tracker->state in a tracker fresh from *)
(* malloc, nd.oobOutput whether outputs[num_outputs] reads as non-NULL.    *)
(* The result is the ProgramManager state with ret and oob added.          *)
(***************************************************************************)
OutputAfterEnd(out) == out >= NumOutputs

OutputRejected(out) == out > NumOutputs

OutputNonNull(out, nd) ==
  IF OutputAfterEnd(out) THEN nd.oobOutput ELSE outputs[out]

\* tracker->state after handle_msg has freed it: the pointer is left as it is.
StateAfterFree(tracker) == tracker.state

\* A handle_msg that forgets to reset the flags of a tracker it reuses.
FlagsKept(tracker) == tracker.flags

\* tracker->flags = 0x0
FlagsOnAssign(tracker) == {}

\* What handle_msg returns, with the state it leaves; path names the branch.
Returned(m, ret, path, oob) == m @@ [ret |-> ret, path |-> path, oob |-> oob]

\* A handle_msg that drops the tracker of the output before it fails.
RejectAndFree(m, out, oob) ==
  Returned(IF out \in Cells THEN free_tracker(m, out) ELSE m, FALSE, "fail", oob)

\* return false: the state is left as it was found.
Reject(m, out, oob) == Returned(m, FALSE, "fail", oob)

handle_msg(m, msg, nd) ==
  LET program == lookup_function(msg.type)
      out == msg.output
  IN IF program = NULL THEN Reject(m, out, FALSE)
     ELSE IF OutputRejected(out) THEN Reject(m, out, FALSE)
     ELSE IF ~OutputNonNull(out, nd) THEN Reject(m, out, OutputAfterEnd(out))
     ELSE
       LET tracker == m.trackers[out] IN
       IF functions[program].type = HMTL_PROGRAM_NONE
       THEN Returned(free_tracker(m, out), TRUE,
                     IF tracker.live THEN "clear" ELSE "clear_empty",
                     OutputAfterEnd(out))
       ELSE
         LET m1 == IF tracker.live
                   THEN LET mf == IF tracker.state # NULL
                                  THEN free_state(m, tracker.state, out)
                                  ELSE m
                        IN [mf EXCEPT !.trackers =
                              [mf.trackers EXCEPT ![out].state = StateAfterFree(tracker)]]
                   ELSE [m EXCEPT !.trackers =
                           [m.trackers EXCEPT ![out] =
                              [live |-> TRUE, program |-> NULL, flags |-> {},
                               state |-> nd.garbage]]]
             m2 == [m1 EXCEPT !.trackers =
                      [m1.trackers EXCEPT ![out].program = program,
                                          ![out].flags = FlagsOnAssign(tracker)]]
         IN Returned(setup(m2, out, nd), TRUE,
                     IF tracker.live THEN "reuse" ELSE "fresh",
                     OutputAfterEnd(out))

PM == [trackers |-> trackers, heap |-> heap, memErr |-> "none"]

mhVars == <<address, sourceAddress, values, pc, halted, io, clock, master>>

\* The blocks malloc can return to the setup of a program assigned to output
\* out: the free ones, and the one handle_msg has just freed.
FreeAddrs(out) ==
  {p \in Ptr : \/ heap[p] = FREE
               \/ out \in Cells /\ trackers[out].live /\ trackers[out].state = p}

ProgramMsgs == [output : 0..(NumOutputs + 1), type : ProgramIds]

\* What handle_msg leaves open for msg, each choice only where the code reads
\* it: the block malloc returns where the setup allocates (the call is not
\* made when malloc has no block left), the garbage where
\* a tracker is malloc'ed, the cell after the outputs table where it is read.
NdSet(msg) ==
  LET program == lookup_function(msg.type)
  IN [addr : IF program # NULL /\ functions[program].setup = "alloc"
             THEN FreeAddrs(msg.output) ELSE {NULL},
      garbage : IF msg.output \in Cells /\ ~trackers[msg.output].live
                THEN {NULL} \cup Ptr ELSE {NULL},
      oobOutput : IF msg.output = NumOutputs THEN BOOLEAN ELSE {FALSE}]

\* The outputs a program can be assigned to: configured, with a descriptor.
ValidOutput(out) == out \in OutIdx /\ outputs[out]

HandleMsg ==
  \E msg \in ProgramMsgs :
    \E nd \in NdSet(msg) :
      \E r \in {handle_msg(PM, msg, nd)} :
         /\ trackers' = r.trackers
         /\ heap' = r.heap
         /\ last' = [op |-> "handle_msg", ret |-> r.ret, path |-> r.path,
                     memErr |-> r.memErr, oob |-> r.oob,
                     invalid |-> ~ValidOutput(msg.output),
                     stepped |-> <<>>, reaped |-> <<>>]
         /\ UNCHANGED mhVars

(***************************************************************************)
(* The step function of a program (hmtl_program_t.program) on the tracker  *)
(* of output i: a program whose setup allocated state reads it; oc.done    *)
(* says whether the program marks itself DONE, oc.changed what it returns. *)
(***************************************************************************)
StepOutcomes == [changed : BOOLEAN, done : BOOLEAN]

program_step(m, i, oc) ==
  LET tracker == m.trackers[i]
      reads == functions[tracker.program].setup = "alloc"
  IN [m EXCEPT
        !.memErr = IF reads /\ (tracker.state = NULL \/ m.heap[tracker.state] # i)
                   THEN FirstErr(m.memErr, "bad_read") ELSE m.memErr,
        !.trackers = [m.trackers EXCEPT ![i].flags =
                        IF oc.done THEN @ \cup {PROGRAM_TRACKER_DONE} ELSE @]]

(***************************************************************************)
(* ProgramManager::run: the loop over the outputs, from output i on.       *)
(* r = [m, updated, stepped, reaped]; ocs[i] is what the step of output i  *)
(* does.                                                                   *)
(***************************************************************************)
\* A run that returns what the last step returned.
UpdatedByLast(updated, changed) == changed

\* if (tracker->program->program(...)) updated = true
Updated(updated, changed) == updated \/ changed

\* A run that does not look at the DONE flag.
IgnoresDone(tracker) == FALSE

\* tracker->flags & PROGRAM_TRACKER_DONE
ReapsDone(tracker) == PROGRAM_TRACKER_DONE \in tracker.flags

RECURSIVE run_from(_, _, _)
run_from(i, r, ocs) ==
  IF i >= NumOutputs THEN r
  ELSE
    LET tracker == r.m.trackers[i] IN
    IF ~tracker.live THEN run_from(i + 1, r, ocs)
    ELSE IF ReapsDone(tracker)
      THEN run_from(i + 1, [r EXCEPT !.m = free_tracker(r.m, i),
                                     !.reaped = Append(r.reaped, i)], ocs)
    ELSE run_from(i + 1,
                  [r EXCEPT !.m = program_step(r.m, i, ocs[i]),
                            !.updated = Updated(r.updated, ocs[i].changed),
                            !.stepped = Append(r.stepped, i)],
                  ocs)

run(m, ocs) ==
  run_from(0, [m |-> m, updated |-> FALSE, stepped |-> <<>>, reaped |-> <<>>], ocs)

\* What the step functions do in one tick, chosen where a tracker exists.
NoChange == [changed |-> FALSE, done |-> FALSE]

TickOutcomes ==
  {ocs \in [OutIdx -> StepOutcomes] :
     \A i \in OutIdx : ~trackers[i].live => ocs[i] = NoChange}

Tick ==
  \E ocs \in TickOutcomes :
    \E r \in {run(PM, ocs)} :
       /\ trackers' = r.m.trackers
       /\ heap' = r.m.heap
       /\ last' = [op |-> "run", ret |-> r.updated, path |-> "none",
                   memErr |-> r.m.memErr, oob |-> FALSE, invalid |-> FALSE,
                   stepped |-> r.stepped, reaped |-> r.reaped]

(***************************************************************************)
(* MessageHandler.                                                         *)
(*                                                                         *)
(* The sockets handed to the constructor.  A socket pointer is a position  *)
(* in this table (sockets[k] models the source's sockets[k-1]) and NULL is *)
(* the pointer to no socket.  send_data_size is the capacity of the send   *)
(* buffer in the units of the message length.                              *)
(***************************************************************************)
sockets ==
  << [live |-> TRUE,  send_data_size |-> MaxLen - 1],
     [live |-> TRUE,  send_data_size |-> MaxLen],
     [live |-> FALSE, send_data_size |-> 0] >>

num_sockets == Len(sockets)

SockIdx == 1..num_sockets

\* The configuration descriptor: config->address, config->device_id.
config == [address |-> 1, device_id |-> 5]

\* The addresses of the nodes on the bus.
Addrs == 1..MaxAddr
SOCKET_ADDR_ANY == 65535
HMTL_MSG_VERSION == 1
MSG_FLAG_ACK == "ACK"
PROGRAM_SENSOR_DATA == "SENSOR_DATA"
HMTL_ACK == "ack"

(***************************************************************************)
(* The messages a transport can deliver.  source is the sender's address   *)
(* in the socket header (Socket::sourceFromData).                          *)
(***************************************************************************)
Body(type, sub, output, program, value, device_id, new_address, nsensors, source) ==
  [type |-> type, sub |-> sub, output |-> output, program |-> program,
   value |-> value, device_id |-> device_id, new_address |-> new_address,
   nsensors |-> nsensors, source |-> source]

Bodies ==
  {Body("OUTPUT", HMTL_OUTPUT_PROGRAM, 0, t, 0, 0, 0, 0, config.address) :
     t \in {"TIMED_CHANGE", "NONE", "FADE"}}
  \cup {Body("OUTPUT", HMTL_OUTPUT_VALUE, 0, "NONE", 255, 0, 0, 0, config.address)}
  \cup {Body("POLL", "NONE", 0, "NONE", 0, 0, 0, 0, a) : a \in Addrs}
  \cup {Body("SET_ADDR", "NONE", 0, "NONE", 0, d, a, 0, config.address) :
          d \in {0, config.device_id, config.device_id + 1}, a \in Addrs}
  \cup {Body("SENSOR", "NONE", 0, "NONE", 0, 0, 0, n, config.address) : n \in {0, MaxSensors}}

Header(version, addr, flags, length) ==
  [version |-> version, address |-> addr, flags |-> flags, length |-> length]

Headers ==
  {Header(HMTL_MSG_VERSION, a, f, l) :
     a \in Addrs \cup {SOCKET_ADDR_ANY}, f \in {{}, {MSG_FLAG_ACK}}, l \in 1..MaxLen}
  \cup {Header(HMTL_MSG_VERSION + 1, a, {}, 1) : a \in Addrs \cup {SOCKET_ADDR_ANY}}

Msgs == {h @@ b : h \in Headers, b \in Bodies}

(***************************************************************************)
(* The node as the handlers see it: the state, and what the running call   *)
(* has written to Serial (serial), sent on each socket (sent), waited      *)
(* (delays), these calls in the order they were made (events), the branch *)
(* process_msg took (branch), the message type it                          *)
(* dispatched on, the programs it ran and the fault it made.               *)
(***************************************************************************)
World ==
  [trackers |-> trackers, heap |-> heap, memErr |-> "none",
   address |-> address, sourceAddress |-> sourceAddress, values |-> values,
   serial |-> <<>>, sent |-> [k \in SockIdx |-> <<>>], delays |-> <<>>,
   events |-> <<>>,
   branch |-> "none", dispatched |-> "none", assign |-> "none", ran |-> <<>>,
   fault |-> "none"]

\* Serial.println(text) and Serial.write(data, length)
SerialPrintln(w, text) ==
  [w EXCEPT !.serial = Append(@, [kind |-> "line", data |-> text]),
            !.events = Append(@, "println")]

SerialWrite(w, data) ==
  [w EXCEPT !.serial = Append(@, [kind |-> "bytes", data |-> data]),
            !.events = Append(@, "write")]

\* Socket::sendMsgTo on socket k
sendMsgTo(w, k, to, data) ==
  [w EXCEPT !.sent[k] = Append(@, [to |-> to, from |-> w.sourceAddress[k],
                                    data |-> data]),
            !.events = Append(@, "send")]

\* delay(ms): the node waits, ms being the int handed to the call
delay(w, ms) ==
  [w EXCEPT !.delays = Append(@, ms), !.events = Append(@, "delay")]

NullDeref(w) == [w EXCEPT !.fault = "null_deref"]

(***************************************************************************)
(* ProgramManager::run_program: the step of the program of the type, with  *)
(* no output and no tracker.  The result of lookup_function is not tested. *)
(***************************************************************************)
run_program(w, type, arg) ==
  LET program == lookup_function(type)
  IN IF program = NULL THEN NullDeref(w)
     ELSE [w EXCEPT !.ran = Append(@, [type |-> functions[program].type, arg |-> arg])]

RECURSIVE run_sensors(_, _, _)
run_sensors(w, n, k) ==
  IF k > n \/ w.fault # "none" THEN w
  ELSE run_sensors(run_program(w, PROGRAM_SENSOR_DATA, k), n, k + 1)

\* hmtl_handle_output_msg: the value of the message goes to the output.
hmtl_handle_output_msg(w, msg) ==
  IF msg.output \in OutIdx /\ outputs[msg.output]
  THEN [w EXCEPT !.values[msg.output] = msg.value]
  ELSE w

\* hmtl_poll_fmt: the poll response, addressed to source_address.
hmtl_poll_fmt(w, msg, source_address) ==
  [type |-> "POLL_RESPONSE", address |-> source_address, node |-> w.address,
   device_id |-> config.device_id, flags |-> msg.flags]

\* The widths of int in the builds of the sketch, and a value as an int of
\* 16 bits holds it.
IntWidths == {16, 32}

Wrap16(v) == LET m == v % 65536 IN IF m >= 32768 THEN m - 65536 ELSE m

\* int delayMs = address * 2, address being a uint16_t: where int has 16
\* bits the product is taken in unsigned int and converted to int.
DelayMs(addr, bits) == IF bits = 16 THEN Wrap16(addr * 2) ELSE addr * 2

\* A POLL case that never reads the source address of the poll.
PollSourceUnset(msg, src) == 0

\* uint16_t source_address = 0; src->sourceFromData(msg_hdr) on a socket
PollSource(msg, src) == IF src # NULL THEN msg.source ELSE 0

\* A POLL case that waits before every response it sends on a socket.
DelaysEveryResponse(msg, src) == TRUE

\* msg_hdr->address == SOCKET_ADDR_ANY, on a socket: the response waits
DelaysResponse(msg, src) == src # NULL /\ msg.address = SOCKET_ADDR_ANY

(***************************************************************************)
(* MessageHandler::process_msg.  src is the socket the message came from   *)
(* (NULL: the serial port), serial_socket the socket whose buffer a serial *)
(* poll response is formatted in.  The result is [w, ret].                 *)
(***************************************************************************)
\* An OUTPUT case that takes no message for a program configuration.
NeverProgramConfig(msg) == FALSE

\* out_hdr->type == HMTL_OUTPUT_PROGRAM
IsProgramConfig(msg) == msg.sub = HMTL_OUTPUT_PROGRAM

\* A SENSOR case that takes every sensor message for a response.
SensorAlways(msg) == TRUE

\* msg_hdr->flags & MSG_FLAG_ACK: the sensor message is a response
SensorResponse(msg) == MSG_FLAG_ACK \in msg.flags

\* A process_msg that does not look at the version.
AnyVersion(msg) == TRUE

VersionOk(msg) == msg.version = HMTL_MSG_VERSION

\* A process_msg without the address filter.
ForAnyDevice(w, msg) == TRUE

ForThisDevice(w, msg) ==
  msg.address = w.address \/ msg.address = SOCKET_ADDR_ANY

AckToSerial(w, msg) ==
  MSG_FLAG_ACK \in msg.flags /\ msg.address # SOCKET_ADDR_ANY

StopsAfterAck(msg) == msg.type # "SENSOR"

\* A SET_ADDR handler that does not look at the device identifier.
ForAnyDeviceId(msg) == TRUE

\* set_addr->device_id == 0 || set_addr->device_id == config->device_id
ForThisDeviceId(msg) ==
  msg.device_id = 0 \/ msg.device_id = config.device_id

Done(w, ret) == [w |-> w, ret |-> ret]

Branch(w, name) == [w EXCEPT !.branch = name]

dispatch(w0, msg, src, serial_socket, nd) ==
  LET w == [w0 EXCEPT !.dispatched = msg.type, !.branch = "dispatch"] IN
  CASE msg.type = "OUTPUT" ->
         IF IsProgramConfig(msg)
         THEN LET h == handle_msg(w, [output |-> msg.output, type |-> msg.program], nd)
              IN Done([w EXCEPT !.trackers = h.trackers, !.heap = h.heap,
                                !.memErr = h.memErr,
                                !.assign = IF h.ret THEN "ok" ELSE "failed"], TRUE)
         ELSE Done(hmtl_handle_output_msg(w, msg), TRUE)
    [] msg.type = "POLL" ->
         LET source_address == PollSource(msg, src)
             sock == IF src # NULL THEN src ELSE serial_socket
         IN IF ~sockets[sock].live THEN Done(NullDeref(w), FALSE)
            ELSE LET resp == hmtl_poll_fmt(w, msg, source_address)
                 IN IF src # NULL
                    THEN LET w1 == IF DelaysResponse(msg, src)
                                   THEN delay(w, DelayMs(w.address, nd.intBits))
                                   ELSE w
                         IN Done(sendMsgTo(w1, src, source_address, resp), FALSE)
                    ELSE Done(SerialWrite(w, resp), FALSE)
    [] msg.type = "SET_ADDR" ->
         IF ForThisDeviceId(msg)
         THEN LET w1 == [w EXCEPT !.address = msg.new_address]
              IN IF src = NULL THEN Done(NullDeref(w1), FALSE)
                 ELSE Done([w1 EXCEPT !.sourceAddress[src] = msg.new_address], FALSE)
         ELSE Done(Branch(w, "other_device"), FALSE)
    [] msg.type = "SENSOR" ->
         IF SensorResponse(msg)
         THEN Done(run_sensors(w, msg.nsensors, 1), FALSE)
         ELSE Done(w, FALSE)
    [] OTHER -> Done(w, FALSE)

process_msg(w, msg, src, serial_socket, nd) ==
  IF ~VersionOk(msg) THEN Done(Branch(w, "version"), FALSE)
  ELSE IF ForThisDevice(w, msg)
    THEN IF AckToSerial(w, msg)
         THEN LET w1 == SerialWrite(w, msg)
              IN IF StopsAfterAck(msg) THEN Done(Branch(w1, "ack"), FALSE)
                 ELSE dispatch(w1, msg, src, serial_socket, nd)
         ELSE dispatch(w, msg, src, serial_socket, nd)
  ELSE Done(Branch(w, "other"), FALSE)

(***************************************************************************)
(* MessageHandler::check_and_forward on socket k.                          *)
(***************************************************************************)
\* A check_and_forward that does not forward broadcasts.
ForwardOthersOnly(w, msg) ==
  msg.address # w.address /\ msg.address # SOCKET_ADDR_ANY

ShouldForward(w, msg) ==
  msg.address # w.address \/ msg.address = SOCKET_ADDR_ANY

\* A check_and_forward without the size guard.
NeverTooLarge(msg, k) == FALSE

TooLarge(msg, k) == msg.length > sockets[k].send_data_size

check_and_forward(w, msg, k) ==
  IF ShouldForward(w, msg) /\ ~TooLarge(msg, k)
  THEN sendMsgTo(w, k, msg.address, msg)
  ELSE w

RECURSIVE forward_from(_, _, _)
forward_from(w, msg, k) ==
  IF k > num_sockets THEN w
  ELSE forward_from(IF sockets[k].live THEN check_and_forward(w, msg, k) ELSE w,
                    msg, k + 1)

(***************************************************************************)
(* MessageHandler::check_serial with a complete message msg read from the  *)
(* serial port, and MessageHandler::check_socket with msg read from socket *)
(* k.                                                                      *)
(***************************************************************************)
FirstSocket == 1

check_serial(w, msg, nd) ==
  process_msg(forward_from(SerialPrintln(w, HMTL_ACK), msg, 1), msg,
              NULL, FirstSocket, nd)

check_socket(w, k, msg, nd) == process_msg(w, msg, k, k, nd)

(***************************************************************************)
(* The control loop.  MessageHandler::check reads the serial port, then    *)
(* every socket in index order; ProgramManager::run follows.  Each         *)
(* transport delivers a complete message or nothing.                       *)
(***************************************************************************)
AtSerial == [at |-> "serial", socket |-> 0]
AtSocket(k) == [at |-> "socket", socket |-> k]
AtRun == [at |-> "run", socket |-> 0]

\* A check that reads the first socket only.
AfterFirstSocket(k) == AtRun

AfterSocket(k) == IF k < num_sockets THEN AtSocket(k + 1) ELSE AtRun

NoIo == [op |-> "none", branch |-> "none", delays |-> <<>>, events |-> <<>>,
         ran |-> 0,
         relays |-> [k \in SockIdx |-> 0], echoed |-> 0, dispatched |-> "none",
         response |-> "none", ret |-> FALSE, fault |-> "none"]

\* The copies of msg in a list of sends or writes.
(***************************************************************************)
(* The clock.  time.ms() is an unsigned long that wraps; TimeMod stands    *)
(* for 2^32 with the unit of time scaled up, and the two thresholds are    *)
(* in the same unit.  The handler is built when the clock reads 0.         *)
(* since_serial and since_ready are the time that has really passed since  *)
(* the last complete serial message and the last 'ready' line (or since    *)
(* the handler was built), counted up to TimeMod.                          *)
(***************************************************************************)
TimeMod == 8

READY_THRESHOLD == 3

READY_RESEND_PERIOD == 2

Min(a, b) == IF a < b THEN a ELSE b

\* a - b in unsigned long arithmetic
Elapsed(a, b) == (a - b) % TimeMod

ClockInit ==
  [now |-> 0, last_serial_ms |-> 0, last_ready_ms |-> 0,
   since_serial |-> 0, since_ready |-> 0, called |-> FALSE, emitted |-> FALSE]

ReadyDueAfterSilence(now, last_serial_ms, last_ready_ms) ==
  Elapsed(now, last_serial_ms) > READY_THRESHOLD

ReadyDue(now, last_serial_ms, last_ready_ms) ==
  /\ Elapsed(now, last_serial_ms) > READY_THRESHOLD
  /\ Elapsed(now, last_ready_ms) > READY_RESEND_PERIOD

serial_ready(c) ==
  LET now == c.now
      due == ReadyDue(now, c.last_serial_ms, c.last_ready_ms)
  IN [c EXCEPT !.last_ready_ms = IF due THEN now ELSE @,
               !.since_ready = IF due THEN 0 ELSE @,
               !.emitted = due,
               !.called = TRUE]

\* check_serial after a complete message: last_serial_ms = time.ms()
serial_stamp(c) ==
  [c EXCEPT !.last_serial_ms = c.now, !.since_serial = 0, !.emitted = FALSE]

(***************************************************************************)
(* The UtilMaster sketch in MODE 3.  A boolean holds 255 as it is where    *)
(* boolean is a byte, and as 1 where it is bool.  A message is the         *)
(* address it is sent to, its length in bytes and the output/value pairs   *)
(* written to the send buffer.                                             *)
(***************************************************************************)
NUM_SLAVES == 1

NUM_OUTPUTS == 3

SizeofOutputValue == 2

MAX_MSG_DATA == NUM_OUTPUTS * SizeofOutputValue

MaxCycle == 24

Slaves == 0..(NUM_SLAVES - 1)

Outputs == 0..(NUM_OUTPUTS - 1)

slave_id == [s \in Slaves |-> s]

slave_output == [s \in Slaves |-> [o \in Outputs |-> o]]

BooleanTypes == {"uint8_t", "bool"}

ToBoolean(type, v) == IF type = "bool" THEN (IF v = 0 THEN 0 ELSE 1) ELSE v % 256

MasterInitOf(type) ==
  [at |-> "update_state", slave |-> 0, boolean |-> type,
   output_value |-> [s \in Slaves |-> [o \in Outputs |-> 0]],
   current_output |-> 0, current_slave |-> 0, current_on |-> TRUE,
   debug_led |-> FALSE, cycle |-> 0, sent |-> <<>>]

MasterInit == MasterInitOf("uint8_t")

SameOutput(current_output) == current_output

NextOutput(current_output) == (current_output + 1) % NUM_OUTPUTS

update_state(m) ==
  LET output == IF m.current_on THEN m.current_output
                ELSE NextOutput(m.current_output)
      slave == IF ~m.current_on /\ output = 0
               THEN (m.current_slave + 1) % NUM_SLAVES ELSE m.current_slave
  IN [m EXCEPT !.output_value[m.current_slave][m.current_output] =
                   ToBoolean(m.boolean, IF m.current_on THEN 255 ELSE 0),
               !.current_output = output,
               !.current_slave = slave,
               !.current_on = ~m.current_on]

RECURSIVE fill_from(_, _, _, _, _)
fill_from(m, slave, output, msg_len, data) ==
  IF output >= NUM_OUTPUTS \/ msg_len > MAX_MSG_DATA - SizeofOutputValue
  THEN [len |-> msg_len, data |-> data]
  ELSE fill_from(m, slave, output + 1, msg_len + SizeofOutputValue,
                 Append(data, [output |-> slave_output[slave][output],
                               value |-> m.output_value[slave][output]]))

send_state(m, slave) ==
  LET b == fill_from(m, slave, 0, 0, <<>>)
  IN [m EXCEPT !.sent = Append(@, [to |-> slave_id[slave], len |-> b.len,
                                   data |-> b.data])]

Copies(list, msg) == Cardinality({i \in DOMAIN list : list[i].data = msg})

Responses(list) ==
  Cardinality({i \in DOMAIN list : list[i].data.type = "POLL_RESPONSE"})

\* What a check_serial / check_socket call did with msg, in short.
Summary(op, msg, r) ==
  [op |-> op, branch |-> r.w.branch, delays |-> r.w.delays, events |-> r.w.events,
   ran |-> Len(r.w.ran),
   relays |-> [k \in SockIdx |-> Copies(r.w.sent[k], msg)],
   echoed |-> Copies(SelectSeq(r.w.serial, LAMBDA e : e.kind = "bytes"), msg),
   dispatched |-> r.w.dispatched,
   response |-> IF \E k \in SockIdx : Responses(r.w.sent[k]) > 0 THEN "socket"
                ELSE IF Responses(SelectSeq(r.w.serial, LAMBDA e : e.kind = "bytes")) > 0
                THEN "serial" ELSE "none",
   ret |-> r.ret, fault |-> r.w.fault]

\* What handle_msg and the build leave open for msg: the width of int is
\* chosen where the delay of a broadcast poll is computed.
MhNd(msg) ==
  LET pm == IF msg.type = "OUTPUT" /\ msg.sub = HMTL_OUTPUT_PROGRAM
            THEN NdSet([output |-> msg.output, type |-> msg.program])
            ELSE {[addr |-> NULL, garbage |-> NULL, oobOutput |-> FALSE]}
      widths == IF msg.type = "POLL" /\ msg.address = SOCKET_ADDR_ANY
                THEN IntWidths ELSE {16}
  IN {n @@ [intBits |-> b] : n \in pm, b \in widths}

\* The state a call leaves.  After a NULL dereference the node stops or goes on.
Commit(op, msg, r) ==
  /\ address' = r.w.address
  /\ sourceAddress' = r.w.sourceAddress
  /\ values' = r.w.values
  /\ trackers' = r.w.trackers
  /\ heap' = r.w.heap
  /\ halted' \in (IF r.w.fault = "none" THEN {FALSE} ELSE BOOLEAN)
  /\ io' = Summary(op, msg, r)
  /\ clock' = IF op = "serial" THEN serial_stamp(clock) ELSE clock
  /\ UNCHANGED master
  /\ last' = IF r.w.assign = "none" THEN NoOp
             ELSE [NoOp EXCEPT !.op = "handle_msg", !.ret = (r.w.assign = "ok"),
                               !.memErr = r.w.memErr]

CheckSerialIdle ==
  /\ pc = AtSerial /\ ~halted
  /\ pc' = AtSocket(1)
  /\ io' = NoIo
  /\ UNCHANGED <<address, sourceAddress, values, halted, trackers, heap, last,
               clock, master>>

\* check_serial when the serial port delivers a complete message of the set M.
CheckSerialOf(M) ==
  /\ pc = AtSerial /\ ~halted
  /\ \E msg \in M : \E nd \in MhNd(msg) :
       \E r \in {check_serial(World, msg, nd)} : Commit("serial", msg, r)
  /\ pc' = AtSocket(1)

CheckSerial == CheckSerialOf(Msgs)

CheckSocketNull ==
  /\ pc.at = "socket" /\ ~halted
  /\ ~sockets[pc.socket].live
  /\ pc' = AfterSocket(pc.socket)
  /\ UNCHANGED <<address, sourceAddress, values, halted, io, trackers, heap, last,
               clock, master>>

CheckSocketIdle ==
  /\ pc.at = "socket" /\ ~halted
  /\ sockets[pc.socket].live
  /\ pc' = AfterSocket(pc.socket)
  /\ io' = NoIo
  /\ UNCHANGED <<address, sourceAddress, values, halted, trackers, heap, last,
               clock, master>>

\* check_socket when the socket delivers a message of the set M.
CheckSocketOf(M) ==
  /\ pc.at = "socket" /\ ~halted
  /\ sockets[pc.socket].live
  /\ \E msg \in M : \E nd \in MhNd(msg) :
       \E r \in {check_socket(World, pc.socket, msg, nd)} : Commit("socket", msg, r)
  /\ pc' = AfterSocket(pc.socket)

CheckSocket == CheckSocketOf(Msgs)

LoopRun ==
  /\ pc = AtRun /\ ~halted
  /\ Tick
  /\ pc' = AtSerial
  /\ UNCHANGED <<address, sourceAddress, values, halted, io, clock, master>>

(***************************************************************************)
(* The state after the constructor, which clears trackers[0..num_outputs-1]*)
(* only.  The cell after the table holds whatever the memory holds: NULL,  *)
(* or a pointer to something that is no tracker.                           *)
(***************************************************************************)
CellAfterEnd ==
  {NullTracker,
   [live |-> TRUE, program |-> num_programs, flags |-> {}, state |-> MaxPtr]}

PMInit ==
  /\ \E c \in CellAfterEnd :
       trackers = [i \in Cells |-> IF i < NumOutputs THEN NullTracker ELSE c]
  /\ heap = [p \in Ptr |-> FREE]
  /\ last = NoOp

(***************************************************************************)
(* The state after the MessageHandler constructor: every socket sends from *)
(* the node's address.                                                     *)
(***************************************************************************)
NodeInitAt(_address) ==
  /\ address = _address
  /\ sourceAddress = [k \in SockIdx |-> _address]
  /\ values = [i \in OutIdx |-> 0]
  /\ pc = AtSerial
  /\ halted = FALSE
  /\ io = NoIo
  /\ clock = ClockInit

MHInitAt(_address) == NodeInitAt(_address) /\ master = MasterInit

MHInit == MHInitAt(config.address)

vars == <<address, sourceAddress, values, pc, halted, io, clock, master,
          trackers, heap, last>>

\* The ProgramManager called directly: program messages and ticks in any order.
InitPM == PMInit /\ MHInit

Run == Tick /\ UNCHANGED mhVars

NextPM == HandleMsg \/ Run

SpecPM == InitPM /\ [][NextPM]_vars

(***************************************************************************)
(* The ProgramManager with a collaborator that calls run_program for any   *)
(* program type, registered or not.  After a NULL dereference the model    *)
(* goes on, which is one of the things the node can do.                    *)
(***************************************************************************)
ExternalTypes == ProgramIds \cup {PROGRAM_SENSOR_DATA}

RunProgram ==
  \E type \in ExternalTypes :
    \E w \in {run_program(World, type, NULL)} :
       /\ last' = [NoOp EXCEPT !.op = "run_program",
                               !.path = IF w.ran = <<>> THEN "none" ELSE "stepped",
                               !.memErr = w.fault]
       /\ UNCHANGED <<trackers, heap>>
       /\ UNCHANGED mhVars

NextExt == HandleMsg \/ Run \/ RunProgram

SpecExt == InitPM /\ [][NextExt]_vars

\* The node: its messages name configured outputs only, and the cell after
\* the trackers table is never read.
Init ==
  /\ PMInit
  /\ trackers[NumOutputs] = NullTracker
  /\ MHInit

\* The node's control loop: MessageHandler::check, then ProgramManager::run.
Next ==
  \/ CheckSerialIdle
  \/ CheckSerial
  \/ CheckSocketNull
  \/ CheckSocketIdle
  \/ CheckSocket
  \/ LoopRun

Spec == Init /\ [][Next]_vars

(***************************************************************************)
(* The node polled.  The constructor takes any 16-bit address but the      *)
(* broadcast one; the addresses below are the ends of the range and the    *)
(* neighbours of the values at which address * 2 leaves an int of 16 bits  *)
(* and an unsigned one.  The transports deliver POLL messages only.        *)
(***************************************************************************)
PollAddrs ==
  {1, MaxAddr, 2^14 - 1, 2^14, 2^14 + 1, 2^15 - 1, 2^15, 2^15 + 1, 2^16 - 2}

PollMsgs == {msg \in Msgs : msg.type = "POLL"}

InitPoll ==
  /\ PMInit
  /\ trackers[NumOutputs] = NullTracker
  /\ \E a \in PollAddrs : MHInitAt(a)

PollSerial == CheckSerialOf(PollMsgs)

PollSocket == CheckSocketOf(PollMsgs)

NextPoll ==
  \/ CheckSerialIdle
  \/ PollSerial
  \/ CheckSocketNull
  \/ CheckSocketIdle
  \/ PollSocket
  \/ LoopRun

SpecPoll == InitPoll /\ [][NextPoll]_vars

(***************************************************************************)
(* The node and its clock.  The sketch calls serial_ready on every pass of *)
(* its loop, and a pass takes less than one unit of time: the clock goes   *)
(* on by one unit only after serial_ready was called.  The serial port     *)
(* delivers messages that are not for this node.                           *)
(***************************************************************************)
ReadyMsgs ==
  {m \in Msgs : /\ m.type = "SENSOR" /\ m.nsensors = 0
                /\ m.version = HMTL_MSG_VERSION
                /\ m.address = MaxAddr /\ m.flags = {} /\ m.length = 1}

nodeVars == <<address, sourceAddress, values, pc, halted, io, trackers, heap, last>>

Elapse ==
  /\ clock.called
  /\ clock' = [clock EXCEPT !.now = (@ + 1) % TimeMod,
                            !.since_serial = Min(@ + 1, TimeMod),
                            !.since_ready = Min(@ + 1, TimeMod),
                            !.called = FALSE,
                            !.emitted = FALSE]
  /\ UNCHANGED <<nodeVars, master>>

SerialReady ==
  /\ clock' = serial_ready(clock)
  /\ UNCHANGED <<nodeVars, master>>

ReadySerial == CheckSerialOf(ReadyMsgs)

NextReady ==
  \/ Elapse
  \/ SerialReady
  \/ CheckSerialIdle
  \/ ReadySerial
  \/ CheckSocketNull
  \/ CheckSocketIdle
  \/ LoopRun

SpecReady ==
  /\ Init
  /\ [][NextReady]_vars
  /\ WF_vars(Elapse)
  /\ WF_vars(SerialReady)

(***************************************************************************)
(* The UtilMaster sketch: loop() calls update_state, then send_state for   *)
(* each slave, then waits and counts the pass.                             *)
(***************************************************************************)
InitMaster ==
  /\ PMInit
  /\ trackers[NumOutputs] = NullTracker
  /\ NodeInitAt(config.address)
  /\ \E type \in BooleanTypes : master = MasterInitOf(type)

UpdateState ==
  /\ master.at = "update_state"
  /\ master' = [update_state(master) EXCEPT !.at = "send_state", !.slave = 0,
                                            !.sent = <<>>]
  /\ UNCHANGED <<nodeVars, clock>>

SendState ==
  /\ master.at = "send_state"
  /\ master' = [send_state(master, master.slave) EXCEPT
                  !.slave = @ + 1,
                  !.at = IF master.slave + 1 < NUM_SLAVES THEN "send_state"
                         ELSE "delay"]
  /\ UNCHANGED <<nodeVars, clock>>

EndLoop ==
  /\ master.at = "delay"
  /\ master.cycle < MaxCycle
  /\ master' = [master EXCEPT !.debug_led = ~@, !.cycle = @ + 1,
                              !.at = "update_state"]
  /\ UNCHANGED <<nodeVars, clock>>

NextMaster == UpdateState \/ SendState \/ EndLoop

SpecMaster == InitMaster /\ [][NextMaster]_vars

(***************************************************************************)
(* Claims about the tracker pool.  Each is stated for every program        *)
(* message and every choice handle_msg leaves open, in every reachable     *)
(* state of the pool.                                                      *)
(***************************************************************************)
Range(f) == {f[i] : i \in DOMAIN f}

\* C1: after handle_msg returns success for a program P other than 'none' on
\* output i, trackers[i] holds a tracker whose program is P and whose DONE
\* flag is clear, whether or not a tracker existed before, and the trackers
\* of every other output are unchanged.
C1_AssignInstallsProgram ==
  \A msg \in ProgramMsgs : \A nd \in NdSet(msg) :
    LET r == handle_msg(PM, msg, nd)
    IN (r.ret /\ msg.type # HMTL_PROGRAM_NONE) =>
         /\ r.trackers[msg.output].live
         /\ functions[r.trackers[msg.output].program].type = msg.type
         /\ PROGRAM_TRACKER_DONE \notin r.trackers[msg.output].flags
         /\ \A j \in Cells \ {msg.output} : r.trackers[j] = trackers[j]

\* C1 witness: handle_msg has replaced the program of an existing tracker
\* while another output keeps a tracker flagged DONE.
C1_Witness ==
  /\ last.op = "handle_msg" /\ last.path = "reuse"
  /\ \E i, j \in OutIdx :
       /\ i # j
       /\ trackers[i].live /\ trackers[i].flags = {}
       /\ trackers[j].live /\ PROGRAM_TRACKER_DONE \in trackers[j].flags

\* C2: over any sequence of assign, clear and tick operations on the
\* configured outputs the state owned by a tracker is released exactly once
\* and no state pointer is read or freed after its release: no operation
\* frees or reads a block that is not the live state of the tracker it acts
\* on, and every live block is the state of the tracker that allocated it.
C2_StateReleasedOnce ==
  /\ ~last.invalid => last.memErr = "none"
  /\ \A p \in Ptr :
       heap[p] \in OutIdx => trackers[heap[p]].live /\ trackers[heap[p]].state = p

\* C3: assign(i, 'none') on a configured output always succeeds and leaves
\* the output without tracker, whatever the tracker was before; clearing it
\* again succeeds, changes nothing and frees nothing.
C3_ClearAlwaysClears ==
  \A msg \in ProgramMsgs : \A nd \in NdSet(msg) :
    (msg.type = HMTL_PROGRAM_NONE /\ ValidOutput(msg.output)) =>
      LET r == handle_msg(PM, msg, nd)
          again == handle_msg([trackers |-> r.trackers, heap |-> r.heap,
                               memErr |-> "none"], msg, nd)
      IN /\ r.ret
         /\ r.trackers[msg.output] = NullTracker
         /\ again.ret
         /\ again.trackers = r.trackers
         /\ again.heap = r.heap
         /\ again.memErr = "none"

\* C3 witness: a clear has removed an existing tracker.
C3_Witness ==
  /\ last.op = "handle_msg" /\ last.path = "clear" /\ ~last.invalid
  /\ last.memErr = "none"
  /\ \E i \in OutIdx : trackers[i].live

\* C4: handle_msg returns failure for every output index that is not
\* strictly less than num_outputs or whose descriptor is NULL, and never
\* indexes the outputs or trackers table at an index >= num_outputs.
C4_RejectsInvalidOutput ==
  /\ ~last.oob
  /\ last.invalid => ~last.ret

\* C5: whenever handle_msg returns failure the tracker pool and the state it
\* owns are exactly as before the call.
C5_FailureLeavesPool ==
  \A msg \in ProgramMsgs : \A nd \in NdSet(msg) :
    LET r == handle_msg(PM, msg, nd)
    IN ~r.ret => (r.trackers = trackers /\ r.heap = heap /\ r.memErr = "none")

\* C5 witness: handle_msg has failed while an output has a tracker.
C5_Witness ==
  /\ last.op = "handle_msg" /\ ~last.ret
  /\ \E i \in OutIdx : trackers[i].live

\* C6: a tick never steps a tracker that is flagged DONE when the tick
\* reaches it; it releases it, so the output has no tracker after the tick.
C6_TickReapsDone ==
  [][last'.op = "run" =>
       \A i \in OutIdx :
         (trackers[i].live /\ PROGRAM_TRACKER_DONE \in trackers[i].flags) =>
           (i \notin Range(last'.stepped) /\ ~trackers'[i].live)]_vars

\* C6 witness: a tick has reaped a DONE tracker and stepped another one.
C6_Witness ==
  /\ last.op = "run"
  /\ last.reaped # <<>> /\ last.stepped # <<>>
  /\ \A i \in Range(last.reaped) : ~trackers[i].live

(***************************************************************************)
(* Claims about the dispatcher.  Each is stated for every message the      *)
(* transport the control loop is at can deliver, in every reachable state. *)
(***************************************************************************)
AtLiveSocket == pc.at = "socket" /\ sockets[pc.socket].live /\ ~halted

AtSerialPort == pc = AtSerial /\ ~halted

SerialBytes(w) == SelectSeq(w.serial, LAMBDA e : e.kind = "bytes")

LiveSockets == {k \in SockIdx : sockets[k].live}

Relayable(msg) == msg.address = SOCKET_ADDR_ANY \/ msg.address # address

Fits(msg, k) == msg.length <= sockets[k].send_data_size

\* C7 as claimed: a message for BROADCAST or for another address, received
\* on the serial bridge or on a bus socket, is retransmitted exactly once on
\* every other live transport it fits, and a BROADCAST message is dispatched
\* locally as well.
C7_RelayFromEveryTransport ==
  /\ AtSerialPort =>
       \A msg \in Msgs : \A nd \in MhNd(msg) :
         LET r == check_serial(World, msg, nd)
         IN Relayable(msg) =>
              /\ \A k \in LiveSockets : Fits(msg, k) => Copies(r.w.sent[k], msg) = 1
              /\ msg.address = SOCKET_ADDR_ANY => r.w.dispatched = msg.type
  /\ AtLiveSocket =>
       \A msg \in Msgs : \A nd \in MhNd(msg) :
         LET r == check_socket(World, pc.socket, msg, nd)
         IN Relayable(msg) =>
              /\ \A k \in LiveSockets \ {pc.socket} :
                   Fits(msg, k) => Copies(r.w.sent[k], msg) = 1
              /\ Copies(SerialBytes(r.w), msg) = 1
              /\ msg.address = SOCKET_ADDR_ANY => r.w.dispatched = msg.type

\* C7 as amended: a message received on the serial bridge whose destination
\* is BROADCAST or is not this node's address is retransmitted, addressed to
\* its destination, exactly once on every live bus socket whose send buffer
\* holds it, and on no other socket, whether or not it is dispatched locally;
\* a message received on a bus socket is retransmitted on no bus socket; a
\* BROADCAST message of the supported version is dispatched locally.
C7_RelayFromSerial ==
  /\ AtSerialPort =>
       \A msg \in Msgs : \A nd \in MhNd(msg) :
         LET r == check_serial(World, msg, nd)
         IN /\ \A k \in SockIdx :
                 /\ Copies(r.w.sent[k], msg) =
                      IF k \in LiveSockets /\ Relayable(msg) /\ Fits(msg, k)
                      THEN 1 ELSE 0
                 /\ \A i \in DOMAIN r.w.sent[k] :
                      r.w.sent[k][i].data = msg => r.w.sent[k][i].to = msg.address
            /\ (msg.address = SOCKET_ADDR_ANY /\ msg.version = HMTL_MSG_VERSION)
                 => r.w.dispatched = msg.type
  /\ AtLiveSocket =>
       \A msg \in Msgs : \A nd \in MhNd(msg) :
         LET r == check_socket(World, pc.socket, msg, nd)
         IN /\ \A k \in SockIdx : Copies(r.w.sent[k], msg) = 0
            /\ (msg.address = SOCKET_ADDR_ANY /\ msg.version = HMTL_MSG_VERSION)
                 => r.w.dispatched = msg.type

\* C7 witness: a broadcast read from the serial port has been relayed on both
\* live sockets and dispatched locally.
C7_Witness ==
  /\ io.op = "serial" /\ io.branch = "dispatch"
  /\ \A k \in LiveSockets : io.relays[k] = 1

\* C8: process_msg on a message whose destination is neither the node's
\* address nor BROADCAST changes neither the address, nor a socket's source
\* address, nor a tracker, nor an output value; it writes nothing to Serial,
\* sends nothing, waits for nothing and runs no program, whatever the type
\* and the flags of the message.
C8_OthersNotDispatched ==
  (AtSerialPort \/ AtLiveSocket) =>
    \A msg \in Msgs : \A nd \in MhNd(msg) :
      (msg.address # address /\ msg.address # SOCKET_ADDR_ANY) =>
        LET src == IF pc = AtSerial THEN NULL ELSE pc.socket
            r == process_msg(World, msg, src, IF src = NULL THEN FirstSocket ELSE src, nd)
        IN /\ ~r.ret
           /\ r.w.address = address
           /\ r.w.sourceAddress = sourceAddress
           /\ r.w.trackers = trackers /\ r.w.heap = heap
           /\ r.w.values = values
           /\ r.w.serial = <<>>
           /\ \A k \in SockIdx : r.w.sent[k] = <<>>
           /\ r.w.delays = <<>>
           /\ r.w.ran = <<>>
           /\ r.w.dispatched = "none"
           /\ r.w.fault = "none"

\* C8 witness: a message for another node has been read from a socket and
\* dropped while the node runs a program.
C8_Witness ==
  /\ io.op = "socket" /\ io.branch = "other"
  /\ trackers[0].live

\* C9: check_and_forward does not send a message on a socket whose send
\* buffer is smaller than the declared length, and leaves that socket alone;
\* the message is still relayed on the sockets that hold it and, when it is
\* a broadcast of the supported version, dispatched locally.
C9_RelaySizeGuard ==
  AtSerialPort =>
    \A msg \in Msgs : \A nd \in MhNd(msg) :
      LET r == check_serial(World, msg, nd)
      IN \A k \in LiveSockets :
           msg.length > sockets[k].send_data_size =>
             /\ check_and_forward(World, msg, k) = World
             /\ r.w.sent[k] = <<>>
             /\ \A j \in LiveSockets :
                  (Relayable(msg) /\ Fits(msg, j)) => Copies(r.w.sent[j], msg) = 1
             /\ (msg.address = SOCKET_ADDR_ANY /\ msg.version = HMTL_MSG_VERSION)
                  => r.w.dispatched = msg.type

\* C9 witness: a broadcast read from the serial port was too large for the
\* first socket, was relayed on the second and dispatched locally.
C9_Witness ==
  /\ io.op = "serial" /\ io.branch = "dispatch"
  /\ io.relays[1] = 0 /\ io.relays[2] = 1

\* C10: process_msg echoes a message other than a sensor message onto Serial
\* exactly when its ACK flag is set and its destination is neither BROADCAST
\* nor this node's address, and does not dispatch a message it has echoed.
C10_AckEchoedWhenNotForUs ==
  (AtSerialPort \/ AtLiveSocket) =>
    \A msg \in Msgs : \A nd \in MhNd(msg) :
      (msg.version = HMTL_MSG_VERSION /\ msg.type # "SENSOR") =>
        LET src == IF pc = AtSerial THEN NULL ELSE pc.socket
            r == process_msg(World, msg, src, IF src = NULL THEN FirstSocket ELSE src, nd)
            echoed == Copies(SerialBytes(r.w), msg) = 1
        IN /\ echoed <=> (/\ MSG_FLAG_ACK \in msg.flags
                          /\ msg.address # SOCKET_ADDR_ANY
                          /\ msg.address # address)
           /\ echoed => r.w.dispatched = "none"

\* C11: process_msg dispatches on the type of every message of the supported
\* version whose destination is this node's address or BROADCAST, whether or
\* not its ACK flag is set.
C11_ForUsReachesDispatch ==
  (AtSerialPort \/ AtLiveSocket) =>
    \A msg \in Msgs : \A nd \in MhNd(msg) :
      (/\ msg.version = HMTL_MSG_VERSION
       /\ (msg.address = address \/ msg.address = SOCKET_ADDR_ANY)) =>
        LET src == IF pc = AtSerial THEN NULL ELSE pc.socket
            r == process_msg(World, msg, src, IF src = NULL THEN FirstSocket ELSE src, nd)
        IN r.w.dispatched = msg.type

\* What process_msg does with msg when the control loop is at a transport.
Src == IF pc = AtSerial THEN NULL ELSE pc.socket

Processed(msg, nd) ==
  process_msg(World, msg, Src, IF Src = NULL THEN FirstSocket ELSE Src, nd)

\* The poll responses process_msg has sent on socket k or written to Serial.
Answers(w) ==
  Responses(SerialBytes(w))
    + Cardinality({k \in SockIdx : Responses(w.sent[k]) > 0})

\* C12: a SET_ADDR message for this node whose device identifier is zero or
\* the configured one sets the node's address to the payload address without
\* a fault, on the serial port as on a bus socket, and a POLL is answered
\* exactly when its destination is the address the node has now, or BROADCAST.
C12_SetAddrOnAnyTransport ==
  (AtSerialPort \/ AtLiveSocket) =>
    \A msg \in Msgs : \A nd \in MhNd(msg) :
      (/\ msg.version = HMTL_MSG_VERSION
       /\ MSG_FLAG_ACK \notin msg.flags) =>
        LET r == Processed(msg, nd)
        IN /\ (/\ msg.type = "SET_ADDR"
               /\ (msg.address = address \/ msg.address = SOCKET_ADDR_ANY)
               /\ (msg.device_id = 0 \/ msg.device_id = config.device_id))
                => (r.w.address = msg.new_address /\ r.w.fault = "none")
           /\ msg.type = "POLL"
                => (Answers(r.w) = 1
                      <=> (msg.address = address \/ msg.address = SOCKET_ADDR_ANY))

\* C13: a SET_ADDR message whose device identifier is neither zero nor the
\* configured one leaves the node's address, the source address of every
\* socket, the trackers and the output values as they are; process_msg sends
\* nothing on any socket, waits for nothing and writes no response to Serial
\* (the only bytes it can write are the message itself, under the ack rule).
C13_OtherDeviceIdIgnored ==
  (AtSerialPort \/ AtLiveSocket) =>
    \A msg \in Msgs : \A nd \in MhNd(msg) :
      (/\ msg.type = "SET_ADDR"
       /\ msg.device_id # 0 /\ msg.device_id # config.device_id) =>
        LET r == Processed(msg, nd)
        IN /\ r.w.address = address
           /\ r.w.sourceAddress = sourceAddress
           /\ r.w.trackers = trackers /\ r.w.heap = heap /\ r.w.values = values
           /\ \A k \in SockIdx : r.w.sent[k] = <<>>
           /\ r.w.delays = <<>>
           /\ \A i \in DOMAIN r.w.serial :
                r.w.serial[i].kind = "bytes" /\ r.w.serial[i].data = msg
           /\ r.w.fault = "none"
           /\ ~r.ret

\* C13 witness: a SET_ADDR message for another device has reached the
\* SET_ADDR case on a socket and the node has the address it was built with.
C13_Witness ==
  /\ io.op = "socket" /\ io.branch = "other_device" /\ io.dispatched = "SET_ADDR"
  /\ address = config.address
  /\ \A k \in SockIdx : sourceAddress[k] = config.address

\* C14 as claimed: a POLL received as a broadcast is answered after a wait of
\* address * 2 ms made before the response goes out, a POLL for the node's
\* own address is answered with no wait, and no other message makes the node
\* wait.
C14_BroadcastPollDelayed ==
  (AtSerialPort \/ AtLiveSocket) =>
    \A msg \in Msgs : \A nd \in MhNd(msg) :
      (msg.version = HMTL_MSG_VERSION /\ MSG_FLAG_ACK \notin msg.flags) =>
        LET r == Processed(msg, nd)
        IN IF msg.type = "POLL" /\ msg.address = SOCKET_ADDR_ANY
           THEN /\ r.w.delays = <<address * 2>>
                /\ Len(r.w.events) = 2 /\ r.w.events[1] = "delay"
                /\ Answers(r.w) = 1
           ELSE r.w.delays = <<>>

\* C14 as amended: process_msg waits exactly when it answers a broadcast POLL
\* of the supported version received on a bus socket; the wait is made once,
\* before the response is sent, and lasts address * 2 ms where that product
\* fits an int of 16 bits.  A POLL read from the serial port, broadcast or
\* not, and a POLL for the node's own address are answered with no wait.
C14_SocketBroadcastPollDelayed ==
  (AtSerialPort \/ AtLiveSocket) =>
    \A msg \in Msgs : \A nd \in MhNd(msg) :
      LET r == Processed(msg, nd)
      IN /\ r.w.delays # <<>> <=>
              (/\ msg.type = "POLL" /\ msg.version = HMTL_MSG_VERSION
               /\ msg.address = SOCKET_ADDR_ANY /\ pc.at = "socket")
         /\ r.w.delays # <<>> =>
              /\ r.w.events = <<"delay", "send">>
              /\ Len(r.w.delays) = 1
              /\ address * 2 < 32768 => r.w.delays[1] = address * 2
         /\ (msg.type = "POLL" /\ r.w.delays = <<>> /\ r.w.dispatched = "POLL")
              => Answers(r.w) = 1

\* C14 witness: a broadcast POLL read from a socket has been answered on it
\* after a wait of address * 2 ms.
C14_Witness ==
  /\ io.op = "socket" /\ io.dispatched = "POLL" /\ io.response = "socket"
  /\ io.events = <<"delay", "send">>
  /\ io.delays = <<address * 2>>

(***************************************************************************)
(* Claims about the poll response delay, for nodes of any address.         *)
(***************************************************************************)
\* C15: the wait of a node that answers a broadcast poll is address * 2 ms,
\* with no wrap-around and no change of sign, and the delay the same build
\* computes for any lower address is no greater than it.
C15_DelayMonotone ==
  io.delays # <<>> =>
    /\ io.delays[1] = address * 2
    /\ \A bits \in IntWidths : \A a1 \in PollAddrs :
         (a1 < address /\ DelayMs(address, bits) = io.delays[1])
           => DelayMs(a1, bits) <= io.delays[1]

(***************************************************************************)
(* More claims about the dispatcher.                                       *)
(***************************************************************************)
\* What check_serial or check_socket does with msg at the transport the
\* control loop is at.
Checked(msg, nd) ==
  IF pc = AtSerial THEN check_serial(World, msg, nd)
  ELSE check_socket(World, pc.socket, msg, nd)

PollResponses(list) ==
  SelectSeq(list, LAMBDA e : e.data.type = "POLL_RESPONSE")

\* C16: a poll response leaves on the transport the POLL came in on and on
\* no other: a POLL dispatched from a bus socket makes exactly one sendMsgTo,
\* on that socket, to the source address of the poll, and writes nothing to
\* Serial; a POLL dispatched from the serial port makes exactly one write of
\* the response to Serial and sends no response on any socket.  A POLL that
\* is not dispatched is not answered anywhere.
C16_PollAnsweredWhereReceived ==
  (AtSerialPort \/ AtLiveSocket) =>
    \A msg \in Msgs : \A nd \in MhNd(msg) :
      msg.type = "POLL" =>
        LET r == Checked(msg, nd)
            onSerial == PollResponses(SerialBytes(r.w))
            answered == IF r.w.dispatched = "POLL" THEN 1 ELSE 0
        IN IF pc = AtSerial
           THEN /\ Len(onSerial) = answered
                /\ \A k \in SockIdx : PollResponses(r.w.sent[k]) = <<>>
           ELSE /\ onSerial = <<>>
                /\ Len(r.w.sent[pc.socket]) = answered
                /\ \A i \in DOMAIN r.w.sent[pc.socket] :
                     /\ r.w.sent[pc.socket][i].data.type = "POLL_RESPONSE"
                     /\ r.w.sent[pc.socket][i].to = msg.source
                /\ \A k \in SockIdx \ {pc.socket} : r.w.sent[k] = <<>>

\* C16 witness: a POLL read from the second socket has been answered on it,
\* and nowhere else.
C16_Witness ==
  /\ io.op = "socket" /\ pc = AfterSocket(2)
  /\ io.dispatched = "POLL" /\ io.response = "socket"
  /\ io.echoed = 0 /\ io.fault = "none"

\* The state of the node is what it was before the call.
NodeUnchanged(w) ==
  /\ w.address = address /\ w.sourceAddress = sourceAddress
  /\ w.trackers = trackers /\ w.heap = heap /\ w.values = values

\* C17 as claimed: a message of another version than the supported one is
\* dropped before anything else is done with it: it is not written to
\* Serial, not dispatched, not sent on any socket, and changes nothing.
C17_BadVersionDropped ==
  (AtSerialPort \/ AtLiveSocket) =>
    \A msg \in Msgs : \A nd \in MhNd(msg) :
      msg.version # HMTL_MSG_VERSION =>
        LET r == Checked(msg, nd)
        IN /\ NodeUnchanged(r.w)
           /\ r.w.dispatched = "none" /\ r.w.ran = <<>>
           /\ SerialBytes(r.w) = <<>>
           /\ \A k \in SockIdx : r.w.sent[k] = <<>>
           /\ r.w.fault = "none"

\* C17 as amended: process_msg drops a message of another version than the
\* supported one: it is not written to Serial, not dispatched, runs no
\* program, changes nothing and makes no fault, so the node goes on.  Read
\* from a bus socket it is sent on no socket.  Read from the serial port it
\* has been relayed by check_serial, before its version was looked at, on
\* every live socket that holds it when its destination is BROADCAST or not
\* this node's address, and on no socket otherwise.
C17_BadVersionDroppedAfterRelay ==
  (AtSerialPort \/ AtLiveSocket) =>
    \A msg \in Msgs : \A nd \in MhNd(msg) :
      msg.version # HMTL_MSG_VERSION =>
        LET r == Checked(msg, nd)
        IN /\ NodeUnchanged(r.w)
           /\ r.w.dispatched = "none" /\ r.w.ran = <<>>
           /\ SerialBytes(r.w) = <<>>
           /\ r.w.delays = <<>>
           /\ r.w.fault = "none" /\ ~r.ret
           /\ \A k \in SockIdx :
                r.w.sent[k] =
                  IF pc = AtSerial /\ k \in LiveSockets /\ Relayable(msg) /\ Fits(msg, k)
                  THEN <<[to |-> msg.address, from |-> sourceAddress[k], data |-> msg]>>
                  ELSE <<>>

\* C17 witness: a message of another version read from the serial port has
\* been relayed on a socket and dropped by process_msg, and the control loop
\* has gone on to the first socket.
C17_Witness ==
  /\ io.op = "serial" /\ io.branch = "version"
  /\ io.relays[2] = 1 /\ io.dispatched = "none"
  /\ pc = AtSocket(1) /\ ~halted

\* The calls check_serial makes for msg before it calls process_msg: the ack
\* line, then one send for every socket the message is relayed on.
RelayEvents(msg) ==
  <<"println">> \o
  [i \in 1..Cardinality({k \in LiveSockets : Relayable(msg) /\ Fits(msg, k)}) |-> "send"]

\* C18: in one iteration the serial port is handled first, then the sockets
\* in index order, then the tick; a call handles one message, and all its
\* relaying is done, with the address the node had when the message was
\* read, before its dispatch; the filter of a transport uses the address the
\* node has when that transport is read, so that a POLL is answered exactly
\* when it is for that address or BROADCAST.
C18_IterationOrder ==
  /\ [][/\ pc = [at |-> "serial", socket |-> 0]
             => pc' = [at |-> "socket", socket |-> 1]
        /\ pc.at = "socket"
             => pc' = IF pc.socket < num_sockets
                      THEN [at |-> "socket", socket |-> pc.socket + 1]
                      ELSE [at |-> "run", socket |-> 0]
        /\ pc.at = "run" => pc' = [at |-> "serial", socket |-> 0]
        /\ Len(SelectSeq(io'.events, LAMBDA e : e = "println")) <= 1]_vars
  /\ [](AtSerialPort =>
          \A msg \in Msgs : \A nd \in MhNd(msg) :
            check_serial(World, msg, nd).w.events =
              RelayEvents(msg) \o Processed(msg, nd).w.events)
  /\ []((AtSerialPort \/ AtLiveSocket) =>
          \A msg \in Msgs : \A nd \in MhNd(msg) :
            (/\ msg.type = "POLL" /\ msg.version = HMTL_MSG_VERSION
             /\ MSG_FLAG_ACK \notin msg.flags) =>
              (Answers(Checked(msg, nd).w) = 1
                 <=> (msg.address = address \/ msg.address = SOCKET_ADDR_ANY)))

\* C18 witness: the message read from the first socket has changed the
\* node's address and the control loop is about to read the second socket.
C18_Witness ==
  /\ pc = AtSocket(2) /\ ~halted
  /\ io.op = "socket" /\ io.dispatched = "SET_ADDR"
  /\ address # config.address
  /\ sourceAddress[1] = address

\* C19: a SENSOR message of the supported version for this node makes, when
\* its ACK flag is set, one run_program call of the sensor-data program for
\* each reading of the payload, in payload order, and none when the flag is
\* clear; it changes no tracker, no output value and no address.
C19_SensorReadingsRun ==
  (AtSerialPort \/ AtLiveSocket) =>
    \A msg \in Msgs : \A nd \in MhNd(msg) :
      (/\ msg.type = "SENSOR" /\ msg.version = HMTL_MSG_VERSION
       /\ (msg.address = address \/ msg.address = SOCKET_ADDR_ANY)) =>
        LET r == Processed(msg, nd)
        IN /\ r.w.ran =
                IF MSG_FLAG_ACK \in msg.flags
                THEN [k \in 1..msg.nsensors |->
                        [type |-> PROGRAM_SENSOR_DATA, arg |-> k]]
                ELSE <<>>
           /\ NodeUnchanged(r.w)
           /\ r.w.fault = "none"

\* C19 witness: a sensor response read from a socket has run the sensor-data
\* program once for each of its readings while the node runs a program.
C19_Witness ==
  /\ io.op = "socket" /\ io.dispatched = "SENSOR"
  /\ io.ran = MaxSensors
  /\ trackers[0].live

\* C20: an OUTPUT message that is dispatched is routed by its sub-type: a
\* program configuration goes to ProgramManager::handle_msg, which leaves the
\* pool as handle_msg leaves it, and writes no output value; any other
\* sub-type is applied to the output and leaves every tracker and the heap
\* as they are.  Neither changes an address.
C20_OutputRoutedBySubType ==
  (AtSerialPort \/ AtLiveSocket) =>
    \A msg \in Msgs : \A nd \in MhNd(msg) :
      msg.type = "OUTPUT" =>
        LET r == Processed(msg, nd)
            h == handle_msg(PM, [output |-> msg.output, type |-> msg.program], nd)
        IN r.w.dispatched = "OUTPUT" =>
             /\ r.w.address = address /\ r.w.sourceAddress = sourceAddress
             /\ r.ret
             /\ IF msg.sub = HMTL_OUTPUT_PROGRAM
                THEN /\ r.w.values = values
                     /\ r.w.trackers = h.trackers /\ r.w.heap = h.heap
                     /\ r.w.assign = IF h.ret THEN "ok" ELSE "failed"
                ELSE /\ r.w.trackers = trackers /\ r.w.heap = heap
                     /\ r.w.assign = "none"
                     /\ r.w.values = [values EXCEPT ![msg.output] = msg.value]

\* C20 witness: a value message has been applied to output 0, which has a
\* tracker, and no program message was handled by that call.
C20_Witness ==
  /\ io.dispatched = "OUTPUT" /\ last.op = "none"
  /\ values[0] = 255
  /\ trackers[0].live

(***************************************************************************)
(* Claims about run_program and the tick.                                  *)
(***************************************************************************)
\* C21: run_program called for a program type that has no entry in the
\* registry runs no step function and dereferences no NULL program.
C21_RunProgramUnknownType ==
  last.op = "run_program" => last.memErr = "none"

\* C22: one call of run steps every output that has a tracker not flagged
\* DONE when the loop reaches it, once, in increasing index order, steps no
\* other output, and returns true exactly when one of these steps returned
\* true.
C22_RunStepsEachOnce ==
  \A ocs \in TickOutcomes :
    LET r == run(PM, ocs)
        due == {i \in OutIdx : trackers[i].live
                               /\ PROGRAM_TRACKER_DONE \notin trackers[i].flags}
    IN /\ Range(r.stepped) = due
       /\ Len(r.stepped) = Cardinality(due)
       /\ \A a, b \in DOMAIN r.stepped : a < b => r.stepped[a] < r.stepped[b]
       /\ r.updated <=> \E i \in due : ocs[i].changed
       /\ \A i \in OutIdx \ due : ~r.m.trackers[i].live

\* C22 witness: a tick has stepped outputs 0 and 1, in this order, and has
\* returned true.
C22_Witness ==
  /\ last.op = "run" /\ last.stepped = <<0, 1>> /\ last.ret
  /\ trackers[0].live /\ trackers[1].live

(***************************************************************************)
(* Claims about the 'ready' line and the clock.                            *)
(***************************************************************************)
ReadyEmitted == ~clock.emitted /\ clock'.emitted

\* C23: a 'ready' line is emitted only when more than READY_THRESHOLD has
\* passed since the last complete serial message and more than
\* READY_RESEND_PERIOD since the last 'ready' line; and once no serial
\* message arrives any more, 'ready' is emitted again and again.
C23_ReadyWhenSilent ==
  /\ [][ReadyEmitted => /\ clock.since_serial > READY_THRESHOLD
                         /\ clock.since_ready > READY_RESEND_PERIOD]_vars
  /\ (<>[](clock.since_serial > 0)) => []<>clock.emitted

C23_Witness ==
  /\ clock.emitted
  /\ clock.now < clock.last_serial_ms
  /\ clock.since_serial = READY_THRESHOLD + 1
  /\ io.op = "serial"

(***************************************************************************)
(* Claims about what a call reports and what it leaves in the sockets.     *)
(***************************************************************************)
\* C24: a check_serial / check_socket call returns true exactly when the
\* message it handled was an OUTPUT message dispatched locally and applied;
\* it returns false for a program message that handle_msg rejected.
C24_TrueOnlyWhenApplied ==
  io.ret <=> /\ io.dispatched = "OUTPUT"
             /\ last.op = "handle_msg" => last.ret

\* C25: after any sequence of inbound messages every live bus socket sends
\* from the node's effective address.
C25_SocketsKeepNodeAddress ==
  \A k \in SockIdx : sockets[k].live => sourceAddress[k] = address

(***************************************************************************)
(* Claims about the UtilMaster sketch.                                     *)
(***************************************************************************)
\* the update_state calls made so far
Calls == IF master.at = "update_state" THEN master.cycle ELSE master.cycle + 1

NonZero == {c \in Slaves \X Outputs : master.output_value[c[1]][c[2]] # 0}

\* C26: in MODE 3, after every update_state call at most one output of all
\* slaves is non-zero; the outputs are lit round-robin, each on after one
\* call and off after the next; and every pass of loop() sends each slave one
\* message with all NUM_OUTPUTS values, no longer than MAX_MSG_DATA.
C26_OneOutputRoundRobin ==
  /\ Cardinality(NonZero) <= 1
  /\ Calls > 0 =>
       LET turn == (Calls - 1) \div 2
       IN NonZero = IF Calls % 2 = 1
                    THEN {<<(turn \div NUM_OUTPUTS) % NUM_SLAVES, turn % NUM_OUTPUTS>>}
                    ELSE {}
  /\ master.at = "delay" =>
       /\ Len(master.sent) = NUM_SLAVES
       /\ \A s \in Slaves :
            LET msg == master.sent[s + 1]
            IN /\ msg.to = slave_id[s]
               /\ Len(msg.data) = NUM_OUTPUTS
               /\ \A o \in Outputs :
                    /\ msg.data[o + 1].output = slave_output[s][o]
                    /\ msg.data[o + 1].value = master.output_value[s][o]
               /\ msg.len <= MAX_MSG_DATA

C26_Witness ==
  /\ master.at = "delay" /\ master.cycle = 2 * NUM_OUTPUTS
  /\ NonZero = {<<0, 0>>}
  /\ Len(master.sent) = NUM_SLAVES
  /\ master.sent[1].data[1].value = 1
====
